---- MODULE Spec2Model ----
(***************************************************************************)
(* Model of src/main.rs: typed extraction from SurrealDB values (the W<T>  *)
(* TryFrom conversions and the XTake / XTakeVal object accessors), the     *)
(* Store's create/get/update/delete/get_list operations over the embedded  *)
(* engine, and the demonstration run in main.                              *)
(*                                                                         *)
(* Rust strings are sequences of one-character strings, so that            *)
(* Thing::to_string and the thing() parser are real conversions.           *)
(***************************************************************************)
EXTENDS Integers, Sequences, FiniteSets, TLC

VARIABLES
    obj,      \* SpecExtract: the Object the accessors are called on
    xhist,    \* SpecExtract: the calls made so far, oldest first (at most 2)
    ds,       \* Store.ds: the engine's records, a function Thing -> Object
    tables,   \* Store.ds: the tables the engine has defined (with their ns/db)
    used,     \* Store.ds: the record ids the engine has generated
    made,     \* Spec: ids create returned whose record was not deleted since
    ups,      \* Spec: ids update brought into existence, not deleted since
    hist,     \* Spec: the last Store call, after the one before it if it is a read
    pc,       \* SpecMain: main's position
    ids,      \* SpecMain: main's new_object_id bindings, in order
    out,      \* SpecMain: the lines printed so far
    calls,    \* SpecMain: the Store operations main has called, in order
    faultAt   \* SpecMain: which engine call fails (0: none)

vars == <<obj, xhist, ds, tables, used, made, ups, hist, pc, ids, out, calls, faultAt>>

-----------------------------------------------------------------------------
(* Bounds *)

\* How many record ids the engine can generate.
MaxIds == 3

-----------------------------------------------------------------------------
(* Rust Result and Option *)

Ok(v) == [ok |-> TRUE, val |-> v]
Err(e) == [ok |-> FALSE, err |-> e]
Some(v) == [some |-> TRUE, v |-> v]
NoneOpt == [some |-> FALSE]

\* enum Error
XValueNotOfType(t) == [kind |-> "XValueNotOfType", arg |-> t]
XPropertyNotFound(k) == [kind |-> "XPropertyNotFound", arg |-> k]
StoreFailToCreate(m) == [kind |-> "StoreFailToCreate", arg |-> m]
SurrealError(m) == [kind |-> "SurrealError", arg |-> m]

\* The typed values the conversions produce.
TString(s) == [ty |-> "String", s |-> s]
TI64(i) == [ty |-> "i64", i |-> i]
TBool(b) == [ty |-> "bool", b |-> b]

-----------------------------------------------------------------------------
(* surrealdb::sql::Value *)

VNone == [tag |-> "None"]
VNull == [tag |-> "Null"]
VFalse == [tag |-> "False"]
VTrue == [tag |-> "True"]
VNumber(i, f) == [tag |-> "Number", int |-> i, frac |-> f]
VStrand(s) == [tag |-> "Strand", s |-> s]
VThing(tb, id) == [tag |-> "Thing", tb |-> tb, id |-> id]
VObject(o) == [tag |-> "Object", obj |-> o]
VArray(a) == [tag |-> "Array", arr |-> a]

Tags == {"None", "Null", "False", "True", "Number", "Strand", "Thing", "Object", "Array"}

EmptyObject == [g \in {} |-> VNone]

\* Number::as_int: an integer as it is, a float truncated towards zero. A
\* number is its integer part and its fractional digits (same sign).
as_int(n) == n.int

\* Thing's Display: table, a colon, the id.
ThingToString(th) == th.tb \o <<":">> \o th.id

\* The target types' names, as the errors carry them.
Targets == {"Object", "Array", "i64", "bool", "String"}

\* Mutant of TryFromObject: anything that is no object becomes an empty one.
TryFromObject_default(v) ==
    IF v.tag = "Object" THEN Ok(v.obj) ELSE Ok(EmptyObject)

\* impl TryFrom<W<Value>> for Object
TryFromObject(v) ==
    IF v.tag = "Object" THEN Ok(v.obj) ELSE Err(XValueNotOfType("Object"))

\* impl TryFrom<W<Value>> for Array
TryFromArray(v) ==
    IF v.tag = "Array" THEN Ok(v.arr) ELSE Err(XValueNotOfType("Array"))

\* impl TryFrom<W<Value>> for i64
TryFromI64(v) ==
    IF v.tag = "Number" THEN Ok(TI64(as_int(v))) ELSE Err(XValueNotOfType("i64"))

\* Mutant of TryFromBool: truthiness instead of a variant check.
TryFromBool_truthy(v) == Ok(TBool(v.tag = "True"))

\* impl TryFrom<W<Value>> for bool
TryFromBool(v) ==
    CASE v.tag = "False" -> Ok(TBool(FALSE))
      [] v.tag = "True" -> Ok(TBool(TRUE))
      [] OTHER -> Err(XValueNotOfType("bool"))

\* impl TryFrom<W<Value>> for String
TryFromString(v) ==
    CASE v.tag = "Strand" -> Ok(TString(v.s))
      [] v.tag = "Thing" -> Ok(TString(ThingToString(v)))
      [] OTHER -> Err(XValueNotOfType("String"))

\* W(v).try_into() at target type T
TryInto(T, v) ==
    CASE T = "Object" -> TryFromObject(v)
      [] T = "Array" -> TryFromArray(v)
      [] T = "i64" -> TryFromI64(v)
      [] T = "bool" -> TryFromBool(v)
      [] T = "String" -> TryFromString(v)

-----------------------------------------------------------------------------
(* Object accessors *)

\* Mutant of Remove: a get, the field stays.
Remove_keep(o, k) ==
    IF k \in DOMAIN o THEN [obj |-> o, val |-> Some(o[k])] ELSE [obj |-> o, val |-> NoneOpt]

\* Object::remove (BTreeMap::remove): the object without k, and k's value.
Remove(o, k) ==
    IF k \in DOMAIN o
    THEN [obj |-> [g \in DOMAIN o \ {k} |-> o[g]], val |-> Some(o[k])]
    ELSE [obj |-> o, val |-> NoneOpt]

\* Value::is_true
is_true(v) == v.tag = "True"

\* impl XTakeImpl<String> for Object
x_take_impl_String(o, k) ==
    LET r == Remove(o, k)
        v == IF r.val.some THEN Some(TryFromString(r.val.v)) ELSE NoneOpt
    IN  [obj |-> r.obj,
         res |-> IF ~v.some THEN Ok(NoneOpt)
                 ELSE IF v.v.ok THEN Ok(Some(v.v.val))
                 ELSE Err(v.v.err)]

\* impl XTakeImpl<i64> for Object
x_take_impl_i64(o, k) ==
    LET r == Remove(o, k)
        v == IF r.val.some THEN Some(TryFromI64(r.val.v)) ELSE NoneOpt
    IN  [obj |-> r.obj,
         res |-> IF ~v.some THEN Ok(NoneOpt)
                 ELSE IF v.v.ok THEN Ok(Some(v.v.val))
                 ELSE Err(v.v.err)]

\* impl XTakeImpl<bool> for Object
x_take_impl_bool(o, k) ==
    LET r == Remove(o, k)
    IN  [obj |-> r.obj,
         res |-> Ok(IF r.val.some THEN Some(TBool(is_true(r.val.v))) ELSE NoneOpt)]

\* The types XTakeImpl is implemented for.
TakeTargets == {"String", "i64", "bool"}

\* XTake::x_take::<T> (the blanket implementation)
x_take(T, o, k) ==
    CASE T = "String" -> x_take_impl_String(o, k)
      [] T = "i64" -> x_take_impl_i64(o, k)
      [] T = "bool" -> x_take_impl_bool(o, k)

\* Mutant of x_take_val: the absent field is not turned into an error.
x_take_val_unchecked(T, o, k) == x_take(T, o, k)

\* XTakeVal::x_take_val::<T> (the blanket implementation)
x_take_val(T, o, k) ==
    LET r == x_take(T, o, k)
    IN  [obj |-> r.obj,
         res |-> IF ~r.res.ok THEN r.res
                 ELSE IF r.res.val.some THEN Ok(r.res.val.v)
                 ELSE Err(XPropertyNotFound(k))]

-----------------------------------------------------------------------------
(* The embedded engine, as the Store's five statements use it.  A stored   *)
(* record is keyed by its Thing.  Texts that are never parsed (titles,     *)
(* bodies, diagnostics) are kept as one token.                             *)

\* The table of every statement.
Todo == <<"t", "o", "d", "o">>

\* The i-th id the engine's generator can produce.
IdOf(i) == [j \in 1..i |-> "a"]

IdPool == {IdOf(i) : i \in 1..MaxIds}

Key(th) == [tb |-> th.tb, id |-> th.id]

\* surrealdb::sql::thing: <table> ':' <id>, nothing before, between or after.
thing(s) ==
    LET cols == {i \in 1..Len(s) : s[i] = ":"} IN
    IF cols = {} THEN Err(SurrealError("parse"))
    ELSE LET c == CHOOSE i \in cols : \A j \in cols : i <= j
             tb == SubSeq(s, 1, c - 1)
             id == SubSeq(s, c + 1, Len(s))
         IN  IF tb = <<>> \/ id = <<>> \/ \E j \in 1..Len(id) : id[j] = ":"
             THEN Err(SurrealError("parse"))
             ELSE Ok(VThing(tb, id))

\* Value::first: an array's first element, None for anything else.
First(v) == IF v.tag = "Array" /\ Len(v.arr) > 0 THEN v.arr[1] ELSE VNone

\* The records of table tb, as a SELECT returns them (in key order).
RECURSIVE RowsOf(_, _)
RowsOf(d, keys) ==
    IF keys = {} THEN <<>>
    ELSE LET k == CHOOSE x \in keys : \A y \in keys : Len(x.id) <= Len(y.id)
         IN  <<VObject(d[k])>> \o RowsOf(d, keys \ {k})

\* One statement's responses: Ok(<<Response>>), a Response being its result.
\* The engine answers every statement, so next().expect(..) finds a response.
Responses(result) == Ok(<<[result |-> result]>>)

\* The engine failing the call as a whole.
EngineFault == Err(SurrealError("engine"))

\* Strict mode: a statement on a table that is not defined fails.
TbNotFound == Err(SurrealError("TbNotFound"))

\* execute("CREATE todo SET title = .., body = ..", strict = false) with the
\* engine generating id: defines the table, stores and returns the record.
ExecCreate(d, t, id, fault) ==
    IF fault THEN [ds |-> d, tables |-> t, res |-> EngineFault]
    ELSE LET th == VThing(Todo, id)
             rec == [id |-> th,
                     title |-> VStrand(<<"Hello, world!">>),
                     body |-> VStrand(<<"Hello, SurrealDB with Rust!">>)]
         IN  [ds |-> [k \in DOMAIN d \cup {Key(th)} |-> IF k = Key(th) THEN rec ELSE d[k]],
              tables |-> t \cup {Todo},
              res |-> Responses(Ok(VArray(<<VObject(rec)>>)))]

\* execute("SELECT * FROM todo", strict = true)
ExecSelectAll(d, t, fault) ==
    IF fault THEN EngineFault
    ELSE IF Todo \notin t THEN Responses(TbNotFound)
    ELSE Responses(Ok(VArray(RowsOf(d, {k \in DOMAIN d : k.tb = Todo}))))

\* Mutant of ExecSelectById: the WHERE clause is lost.
ExecSelectById_all(d, t, id, fault) ==
    IF fault THEN EngineFault
    ELSE IF Todo \notin t THEN Responses(TbNotFound)
    ELSE Responses(Ok(VArray(RowsOf(d, {k \in DOMAIN d : k.tb = Todo}))))

\* execute("SELECT * FROM todo WHERE id = $id", strict = true)
ExecSelectById(d, t, id, fault) ==
    IF fault THEN EngineFault
    ELSE IF Todo \notin t THEN Responses(TbNotFound)
    ELSE Responses(Ok(VArray(RowsOf(d, {k \in DOMAIN d : k.tb = Todo /\ d[k].id = id}))))

\* Mutant of ExecUpdate: the id is returned and nothing is merged.
ExecUpdate_noop(d, t, th, fault) ==
    IF fault THEN [ds |-> d, res |-> EngineFault]
    ELSE IF th.tb \notin t THEN [ds |-> d, res |-> Responses(TbNotFound)]
    ELSE [ds |-> d, res |-> Responses(Ok(VArray(<<VObject([id |-> th])>>)))]

\* execute("UPDATE $th MERGE { body: .., title: .. } RETURN id", strict = true):
\* merges into $th's record, which UPDATE creates when there is none.
ExecUpdate(d, t, th, fault) ==
    IF fault THEN [ds |-> d, res |-> EngineFault]
    ELSE IF th.tb \notin t THEN [ds |-> d, res |-> Responses(TbNotFound)]
    ELSE LET old == IF Key(th) \in DOMAIN d THEN d[Key(th)] ELSE [id |-> th]
             new == [g \in DOMAIN old \cup {"body", "title"} |->
                        CASE g = "body" -> VStrand(<<"An Updated message!">>)
                          [] g = "title" -> VStrand(<<"Updated!">>)
                          [] OTHER -> old[g]]
         IN  [ds |-> [k \in DOMAIN d \cup {Key(th)} |-> IF k = Key(th) THEN new ELSE d[k]],
              res |-> Responses(Ok(VArray(<<VObject([id |-> new.id])>>)))]

\* Mutant of ExecDelete: the statement removes nothing.
ExecDelete_noop(d, th, fault) ==
    IF fault THEN [ds |-> d, res |-> EngineFault]
    ELSE [ds |-> d, res |-> Responses(Ok(VArray(<<>>)))]

\* execute("DELETE $th", strict = false)
ExecDelete(d, th, fault) ==
    IF fault THEN [ds |-> d, res |-> EngineFault]
    ELSE [ds |-> [k \in DOMAIN d \ {Key(th)} |-> d[k]],
          res |-> Responses(Ok(VArray(<<>>)))]

-----------------------------------------------------------------------------
(* impl Store.  Each operation gives the engine's next state and its result. *)

\* Mutant of CollectObjects: the last element is dropped.
CollectObjects_short(arr) ==
    IF \E i \in 1..Len(arr) : ~TryFromObject(arr[i]).ok
    THEN Err(XValueNotOfType("Object"))
    ELSE Ok([i \in 1..(Len(arr) - 1) |-> TryFromObject(arr[i]).val])

\* array.into_iter().map(|value| W(value).try_into()).collect()
CollectObjects(arr) ==
    IF \E i \in 1..Len(arr) : ~TryFromObject(arr[i]).ok
    THEN Err(XValueNotOfType("Object"))
    ELSE Ok([i \in 1..Len(arr) |-> TryFromObject(arr[i]).val])

\* Store::get_list
get_list(d, t, fault) ==
    LET res == ExecSelectAll(d, t, fault) IN
    IF ~res.ok THEN res
    ELSE LET first_res == res.val[1] IN
         IF ~first_res.result.ok THEN first_res.result
         ELSE LET array == TryFromArray(first_res.result.val) IN
              IF ~array.ok THEN array ELSE CollectObjects(array.val)

\* Store::get
get(d, t, uid, fault) ==
    LET id == thing(uid) IN
    IF ~id.ok THEN id
    ELSE LET res == ExecSelectById(d, t, id.val, fault) IN
         IF ~res.ok THEN res
         ELSE LET first_res == res.val[1] IN
              IF ~first_res.result.ok THEN first_res.result
              ELSE TryFromObject(First(first_res.result.val))

\* Store::create, the engine generating id
create(d, t, id, fault) ==
    LET e == ExecCreate(d, t, id, fault)
        first_val == IF e.res.ok THEN e.res.val[1].result ELSE e.res
    IN  [ds |-> e.ds, tables |-> e.tables,
         res |-> IF ~first_val.ok THEN first_val
                 ELSE IF First(first_val.val).tag = "Object"
                 THEN x_take_val("String", First(first_val.val).obj, "id").res
                 ELSE Err(StoreFailToCreate("exec_create, nothing returned."))]

\* Store::update
update(d, t, tid, fault) ==
    LET th == thing(tid) IN
    IF ~th.ok THEN [ds |-> d, res |-> th]
    ELSE LET e == ExecUpdate(d, t, th.val, fault)
             result == IF e.res.ok THEN e.res.val[1].result ELSE e.res
         IN  [ds |-> e.ds,
              res |-> IF ~result.ok THEN result
                      ELSE IF First(result.val).tag = "Object"
                      THEN x_take_val("String", First(result.val).obj, "id").res
                      ELSE Err(StoreFailToCreate(<<"exec_merge ", tid, ", nothing returned.">>))]

\* Mutant of delete: the identifier is echoed and no statement is run.
delete_echo(d, tid, fault) ==
    [ds |-> d, res |-> IF thing(tid).ok THEN Ok(TString(tid)) ELSE thing(tid)]

\* Store::delete
delete(d, tid, fault) ==
    LET th == thing(tid) IN
    IF ~th.ok THEN [ds |-> d, res |-> th]
    ELSE LET e == ExecDelete(d, th.val, fault)
             result == IF e.res.ok THEN e.res.val[1].result ELSE e.res
         IN  [ds |-> e.ds,
              res |-> IF ~result.ok THEN result ELSE Ok(TString(tid))]

-----------------------------------------------------------------------------
(* Spec: a caller using one Store on a working engine *)

StoreIdle ==
    /\ ds = EmptyObject
    /\ tables = {}
    /\ used = {}
    /\ made = {}
    /\ ups = {}
    /\ hist = <<>>

MainIdle ==
    /\ pc = "idle"
    /\ ids = <<>>
    /\ out = <<>>
    /\ calls = <<>>
    /\ faultAt = 0

ExtractIdle ==
    /\ obj = EmptyObject
    /\ xhist = <<>>

\* The identifiers a caller passes: every record id's text, one that does not
\* parse, and one of another table.
Uids ==
    {ThingToString(VThing(Todo, id)) : id \in IdPool} \cup {Todo, <<"x", ":", "a">>}

\* The call just made; a read (get, get_list) is kept with the call before it.
Push(h, e) ==
    IF e.op \in {"get", "get_list"} /\ h # <<>> THEN <<h[Len(h)], e>> ELSE <<e>>

\* The texts of the identifiers create has returned.
Returned == {ThingToString(VThing(Todo, id)) : id \in used}

\* A call: its argument and result, the collection it was made on, and
\* whether create had returned its argument before.
Call(op, arg, res) ==
    [op |-> op, arg |-> arg, res |-> res, pre |-> ds, known |-> arg \in Returned]

\* The collection as the i-th call of hist left it.
After(i) == IF i = Len(hist) THEN ds ELSE hist[i + 1].pre

\* Store::new
Init ==
    /\ ExtractIdle
    /\ StoreIdle
    /\ MainIdle

\* store.create(): the engine generates an id it has not given out and that
\* names no record.
Create ==
    \E id \in IdPool \ (used \cup {k.id : k \in DOMAIN ds}) :
        LET r == create(ds, tables, id, FALSE) IN
        /\ ds' = r.ds
        /\ tables' = r.tables
        /\ used' = used \cup {id}
        /\ made' = IF r.res.ok THEN made \cup {r.res.val.s} ELSE made
        /\ hist' = Push(hist, Call("create", <<>>, r.res))
        /\ UNCHANGED <<obj, xhist, ups, pc, ids, out, calls, faultAt>>

\* store.get(uid)
Get(uid) ==
    /\ hist' = Push(hist, Call("get", uid, get(ds, tables, uid, FALSE)))
    /\ UNCHANGED <<obj, xhist, ds, tables, used, made, ups, pc, ids, out, calls, faultAt>>

\* store.update(tid)
Update(tid) ==
    LET r == update(ds, tables, tid, FALSE) IN
    /\ ds' = r.ds
    /\ ups' = IF r.res.ok /\ tid \notin made THEN ups \cup {tid} ELSE ups
    /\ hist' = Push(hist, Call("update", tid, r.res))
    /\ UNCHANGED <<obj, xhist, tables, used, made, pc, ids, out, calls, faultAt>>

\* store.delete(tid)
Delete(tid) ==
    LET r == delete(ds, tid, FALSE) IN
    /\ ds' = r.ds
    /\ made' = IF r.res.ok THEN made \ {tid} ELSE made
    /\ ups' = IF r.res.ok THEN ups \ {tid} ELSE ups
    /\ hist' = Push(hist, Call("delete", tid, r.res))
    /\ UNCHANGED <<obj, xhist, tables, used, pc, ids, out, calls, faultAt>>

\* store.get_list()
GetList ==
    /\ hist' = Push(hist, Call("get_list", <<>>, get_list(ds, tables, FALSE)))
    /\ UNCHANGED <<obj, xhist, ds, tables, used, made, ups, pc, ids, out, calls, faultAt>>

Next ==
    \/ Create
    \/ \E uid \in Uids : Get(uid)
    \/ \E tid \in Uids : Update(tid)
    \/ \E tid \in Uids : Delete(tid)
    \/ GetList

Spec == Init /\ [][Next]_vars

-----------------------------------------------------------------------------
(* SpecMain: the demonstration run, on an engine that may fail one call *)

\* The fallible calls of main, in the order of its text.
MainOrder == <<"new", "create", "get", "create", "update", "create", "delete", "get_list">>

\* println!(prefix, val)
Line(prefix, val) == [prefix |-> prefix, val |-> val]

\* Whether the engine fails the call main is about to make.
Fault == faultAt = Len(calls) + 1

InitMain ==
    /\ ExtractIdle
    /\ StoreIdle
    /\ pc = "new"
    /\ ids = <<>>
    /\ out = <<>>
    /\ calls = <<>>
    /\ faultAt \in 0..Len(MainOrder)

\* let store = Store::new().await?;
MainNew ==
    /\ pc = "new"
    /\ calls' = Append(calls, "new")
    /\ pc' = IF Fault THEN "failed" ELSE "create1"
    /\ UNCHANGED <<obj, xhist, ds, tables, used, made, ups, hist, ids, out, faultAt>>

\* let new_object_id = store.create().await?; println!(..)
MainCreate(at, prefix, next) ==
    /\ pc = at
    /\ \E id \in IdPool \ used :
        LET r == create(ds, tables, id, Fault) IN
        /\ ds' = r.ds
        /\ tables' = r.tables
        /\ used' = IF Fault THEN used ELSE used \cup {id}
        /\ calls' = Append(calls, "create")
        /\ IF r.res.ok
           THEN /\ ids' = Append(ids, r.res.val.s)
                /\ out' = Append(out, Line(prefix, r.res.val.s))
                /\ pc' = next
           ELSE /\ pc' = "failed"
                /\ UNCHANGED <<ids, out>>
    /\ UNCHANGED <<obj, xhist, made, ups, hist, faultAt>>

\* let object = store.get(&new_object_id).await?; println!(..)
MainGet ==
    /\ pc = "get1"
    /\ LET r == get(ds, tables, ids[Len(ids)], Fault) IN
       /\ calls' = Append(calls, "get")
       /\ IF r.ok
          THEN /\ out' = Append(out, Line("Fetched Object: ", r.val))
               /\ pc' = "create2"
          ELSE /\ pc' = "failed"
               /\ UNCHANGED out
    /\ UNCHANGED <<obj, xhist, ds, tables, used, made, ups, hist, ids, faultAt>>

\* let updated_object_id = store.update(&new_object_id).await?; println!(..)
MainUpdate ==
    /\ pc = "update2"
    /\ LET r == update(ds, tables, ids[Len(ids)], Fault) IN
       /\ ds' = r.ds
       /\ calls' = Append(calls, "update")
       /\ IF r.res.ok
          THEN /\ out' = Append(out, Line("Updated ID: ", r.res.val.s))
               /\ pc' = "create3"
          ELSE /\ pc' = "failed"
               /\ UNCHANGED out
    /\ UNCHANGED <<obj, xhist, tables, used, made, ups, hist, ids, faultAt>>

\* let deleted_object_id = store.delete(&new_object_id).await?; println!(..)
MainDelete ==
    /\ pc = "delete3"
    /\ LET r == delete(ds, ids[Len(ids)], Fault) IN
       /\ ds' = r.ds
       /\ calls' = Append(calls, "delete")
       /\ IF r.res.ok
          THEN /\ out' = Append(out, Line("Deleted Object ID: ", r.res.val.s))
               /\ pc' = "list"
          ELSE /\ pc' = "failed"
               /\ UNCHANGED out
    /\ UNCHANGED <<obj, xhist, tables, used, made, ups, hist, ids, faultAt>>

\* let res = store.get_list().await?; then one line per object; Ok(())
MainList ==
    /\ pc = "list"
    /\ LET r == get_list(ds, tables, Fault) IN
       /\ calls' = Append(calls, "get_list")
       /\ IF r.ok
          THEN /\ out' = out \o [i \in 1..Len(r.val) |-> Line("Object in DB: ", r.val[i])]
               /\ pc' = "done"
          ELSE /\ pc' = "failed"
               /\ UNCHANGED out
    /\ UNCHANGED <<obj, xhist, ds, tables, used, made, ups, hist, ids, faultAt>>

NextMain ==
    \/ MainNew
    \/ MainCreate("create1", "", "get1")
    \/ MainGet
    \/ MainCreate("create2", "ID to be Updated: ", "update2")
    \/ MainUpdate
    \/ MainCreate("create3", "ID to be deleted: ", "delete3")
    \/ MainDelete
    \/ MainList

SpecMain == InitMain /\ [][NextMain]_vars

-----------------------------------------------------------------------------
(* SpecExtract: the conversions and the accessors applied to bounded inputs *)

\* How many accessor calls are made on one object.
MaxCalls == 2

\* The values an object's field holds, one or more of every variant.
LeafValues ==
    {VNone, VNull, VFalse, VTrue, VNumber(7, 0), VNumber(-2, 5),
     VStrand(<<"a">>), VThing(Todo, <<"a">>), VObject(EmptyObject), VArray(<<>>)}

\* The values the conversions are applied to: the leaves, and a non-empty
\* object and array.
InputValues ==
    LeafValues \cup {VObject([g \in {"id"} |-> VTrue]), VArray(<<VNull, VStrand(<<"a">>)>>)}

Fields == {"id", "done"}

InputObjects == UNION {[D -> LeafValues] : D \in SUBSET Fields}

InitExtract ==
    /\ obj \in InputObjects
    /\ xhist = <<>>
    /\ StoreIdle
    /\ MainIdle

\* o.x_take::<T>(k)
XTake(T, k) ==
    /\ Len(xhist) < MaxCalls
    /\ \A i \in 1..Len(xhist) : xhist[i].op # "try_into"
    /\ LET r == x_take(T, obj, k)
       IN  /\ obj' = r.obj
           /\ xhist' = Append(xhist, [op |-> "x_take", T |-> T, k |-> k, v |-> VNone,
                                      pre |-> obj, post |-> r.obj, res |-> r.res])
    /\ UNCHANGED <<ds, tables, used, made, ups, hist, pc, ids, out, calls, faultAt>>

\* o.x_take_val::<T>(k)
XTakeVal(T, k) ==
    /\ Len(xhist) < MaxCalls
    /\ \A i \in 1..Len(xhist) : xhist[i].op # "try_into"
    /\ LET r == x_take_val(T, obj, k)
       IN  /\ obj' = r.obj
           /\ xhist' = Append(xhist, [op |-> "x_take_val", T |-> T, k |-> k, v |-> VNone,
                                      pre |-> obj, post |-> r.obj, res |-> r.res])
    /\ UNCHANGED <<ds, tables, used, made, ups, hist, pc, ids, out, calls, faultAt>>

\* W(v).try_into() at T, on its own
Convert(T, v) ==
    /\ xhist = <<>>
    /\ xhist' = <<[op |-> "try_into", T |-> T, k |-> "", v |-> v,
                   pre |-> obj, post |-> obj, res |-> TryInto(T, v)]>>
    /\ UNCHANGED <<obj, ds, tables, used, made, ups, hist, pc, ids, out, calls, faultAt>>

NextExtract ==
    \/ \E T \in TakeTargets, k \in Fields : XTake(T, k)
    \/ \E T \in TakeTargets, k \in Fields : XTakeVal(T, k)
    \/ \E T \in Targets, v \in InputValues : Convert(T, v)

SpecExtract == InitExtract /\ [][NextExtract]_vars

-----------------------------------------------------------------------------
(* Claims about the conversions and the accessors *)

\* The variants each target type accepts.
Accepts(T) ==
    CASE T = "String" -> {"Strand", "Thing"}
      [] T = "i64" -> {"Number"}
      [] T = "bool" -> {"False", "True"}
      [] T = "Object" -> {"Object"}
      [] T = "Array" -> {"Array"}

IsTake(e) == e.op \in {"x_take", "x_take_val"}

\* C1: converting a value to a target type succeeds when the value's variant
\* is one the type accepts, and otherwise returns XValueNotOfType naming the
\* type (a result, never a panic).
C1_Conversion ==
    \A i \in 1..Len(xhist) :
        LET e == xhist[i] IN
        e.op = "try_into" =>
            IF e.v.tag \in Accepts(e.T)
            THEN e.res.ok
            ELSE e.res = Err(XValueNotOfType(e.T))

C1_Witness ==
    \E i \in 1..Len(xhist) :
        /\ xhist[i].op = "try_into"
        /\ xhist[i].T = "bool"
        /\ xhist[i].v.tag = "Strand"
        /\ xhist[i].res = Err(XValueNotOfType("bool"))

\* C2: x_take on a present field converts the field's value by the target
\* type's TryFrom rule: Some(converted) when the variant is accepted, and
\* XValueNotOfType otherwise; for bool too.
C2_TakeConverts ==
    \A i \in 1..Len(xhist) :
        LET e == xhist[i] IN
        (e.op = "x_take" /\ e.k \in DOMAIN e.pre) =>
            LET c == TryInto(e.T, e.pre[e.k]) IN
            IF c.ok THEN e.res = Ok(Some(c.val)) ELSE e.res = Err(XValueNotOfType(e.T))

\* C3: on a field the object does not hold, x_take returns None and
\* x_take_val returns XPropertyNotFound with the field's name, and the object
\* is unchanged.
C3_Absent ==
    \A i \in 1..Len(xhist) :
        LET e == xhist[i] IN
        (IsTake(e) /\ e.k \notin DOMAIN e.pre) =>
            /\ e.post = e.pre
            /\ e.op = "x_take" => e.res = Ok(NoneOpt)
            /\ e.op = "x_take_val" => e.res = Err(XPropertyNotFound(e.k))

C3_Witness ==
    /\ Len(xhist) = 1
    /\ xhist[1].op = "x_take_val"
    /\ xhist[1].k = "id"
    /\ "id" \notin DOMAIN xhist[1].pre
    /\ "done" \in DOMAIN xhist[1].pre
    /\ xhist[1].res = Err(XPropertyNotFound("id"))

\* C4: a take of a present field removes that field and nothing else,
\* whether or not the conversion succeeded, so that a second take of the
\* field finds it absent (None, or XPropertyNotFound).
C4_Destructive ==
    \A i \in 1..Len(xhist) :
        LET e == xhist[i] IN
        (IsTake(e) /\ e.k \in DOMAIN e.pre) =>
            /\ DOMAIN e.post = DOMAIN e.pre \ {e.k}
            /\ \A g \in DOMAIN e.post : e.post[g] = e.pre[g]
            /\ \A j \in (i + 1)..Len(xhist) :
                   (j = i + 1 /\ IsTake(xhist[j]) /\ xhist[j].k = e.k) =>
                       /\ xhist[j].op = "x_take" => xhist[j].res = Ok(NoneOpt)
                       /\ xhist[j].op = "x_take_val"
                              => xhist[j].res = Err(XPropertyNotFound(e.k))

C4_Witness ==
    /\ Len(xhist) = 2
    /\ xhist[1].op = "x_take"
    /\ xhist[1].k = "id"
    /\ DOMAIN xhist[1].pre = {"id", "done"}
    /\ ~xhist[1].res.ok
    /\ xhist[2].op = "x_take_val"
    /\ xhist[2].k = "id"
    /\ xhist[2].res = Err(XPropertyNotFound("id"))
    /\ DOMAIN obj = {"done"}

-----------------------------------------------------------------------------
(* Claims about the Store *)

Hello == [title |-> VStrand(<<"Hello, world!">>),
          body |-> VStrand(<<"Hello, SurrealDB with Rust!">>)]

Updated == [title |-> VStrand(<<"Updated!">>),
            body |-> VStrand(<<"An Updated message!">>)]

\* A fetched object is the record named uid, with these title and body.
IsRecord(o, uid, texts) ==
    /\ DOMAIN o = {"id", "title", "body"}
    /\ o["id"].tag = "Thing"
    /\ ThingToString(o["id"]) = uid
    /\ o["title"] = texts.title
    /\ o["body"] = texts.body

\* The identifiers of the objects in a listing.
ListedIds(objs) ==
    {ThingToString(objs[i]["id"]) : i \in {j \in 1..Len(objs) : "id" \in DOMAIN objs[j]}}

\* Whether uid names a record of the collection d.
Names(uid, d) ==
    /\ thing(uid).ok
    /\ Key(thing(uid).val) \in DOMAIN d
    /\ thing(uid).val.tb = Todo

\* C5: when create returns X and get(X) is the next call, get succeeds with
\* the record whose id is X and whose title and body are create's defaults.
C5_RoundTrip ==
    (/\ Len(hist) = 2
     /\ hist[1].op = "create"
     /\ hist[1].res.ok
     /\ hist[2].op = "get"
     /\ hist[2].arg = hist[1].res.val.s)
        => /\ hist[2].res.ok
           /\ IsRecord(hist[2].res.val, hist[1].res.val.s, Hello)

C5_Witness ==
    /\ Len(hist) = 2
    /\ hist[1].op = "create"
    /\ hist[1].res.ok
    /\ DOMAIN hist[1].pre # {}
    /\ hist[2].op = "get"
    /\ hist[2].arg = hist[1].res.val.s
    /\ hist[2].res.ok

\* C6: delete(Y) of an identifier create returned returns Y, and as long as
\* Y has not been created again, no listing holds a record with id Y.
C6_Delete ==
    /\ \A i \in 1..Len(hist) :
           (hist[i].op = "delete" /\ hist[i].known)
               => hist[i].res = Ok(TString(hist[i].arg))
    /\ \A Y \in Returned \ (made \cup ups) :
           LET l == get_list(ds, tables, FALSE) IN
           l.ok /\ Y \notin ListedIds(l.val)

C6_Witness ==
    /\ Len(hist) = 2
    /\ hist[1].op = "delete"
    /\ hist[1].known
    /\ Names(hist[1].arg, hist[1].pre)
    /\ hist[1].res.ok
    /\ hist[2].op = "get_list"
    /\ hist[2].res.ok
    /\ Len(hist[2].res.val) > 0
    /\ hist[1].arg \notin ListedIds(hist[2].res.val)

\* C7: update(X) of an identifier create returned returns X, and a get(X)
\* that follows returns the record with id X and the update's title and
\* body, not create's.
C7_Update ==
    \A i \in 1..Len(hist) :
        (hist[i].op = "update" /\ hist[i].known) =>
            /\ hist[i].res = Ok(TString(hist[i].arg))
            /\ (i < Len(hist) /\ hist[i + 1].op = "get" /\ hist[i + 1].arg = hist[i].arg)
                   => /\ hist[i + 1].res.ok
                      /\ IsRecord(hist[i + 1].res.val, hist[i].arg, Updated)
                      /\ hist[i + 1].res.val["title"] # Hello.title
                      /\ hist[i + 1].res.val["body"] # Hello.body

C7_Witness ==
    /\ Len(hist) = 2
    /\ hist[1].op = "update"
    /\ hist[1].known
    /\ Names(hist[1].arg, hist[1].pre)
    /\ hist[1].pre[Key(thing(hist[1].arg).val)]["title"] = Hello.title
    /\ hist[2].op = "get"
    /\ hist[2].arg = hist[1].arg
    /\ hist[2].res.ok

\* C8 as claimed: in every state, list() succeeds and holds exactly one
\* object per record create made that was not deleted since.
C8_ListAsClaimed ==
    LET l == get_list(ds, tables, FALSE) IN
    /\ l.ok
    /\ ListedIds(l.val) = made
    /\ Len(l.val) = Cardinality(made)

\* C8, amended: once a create has succeeded, list() succeeds and holds
\* exactly one object per record that create made, or that update brought
\* into existence, and that was not deleted since.
C8_List ==
    used # {} =>
        LET l == get_list(ds, tables, FALSE) IN
        /\ l.ok
        /\ ListedIds(l.val) = made \cup ups
        /\ Len(l.val) = Cardinality(made \cup ups)

C8_Witness ==
    /\ Cardinality(made) = 3
    /\ ups = {}
    /\ Len(hist) = 2
    /\ hist[1].op = "create"
    /\ hist[2].op = "get_list"
    /\ hist[2].res.ok
    /\ ListedIds(hist[2].res.val) = made
    /\ Len(hist[2].res.val) = 3

\* C9: get of an identifier that names no record of the collection returns
\* an error and leaves the collection as it was.
C9_GetMissing ==
    \A i \in 1..Len(hist) :
        (hist[i].op = "get" /\ ~Names(hist[i].arg, hist[i].pre)) =>
            /\ ~hist[i].res.ok
            /\ After(i) = hist[i].pre

C9_Witness ==
    /\ Len(hist) = 2
    /\ hist[1].op = "delete"
    /\ Names(hist[1].arg, hist[1].pre)
    /\ DOMAIN After(1) # {}
    /\ hist[2].op = "get"
    /\ hist[2].arg = hist[1].arg
    /\ hist[2].res = Err(XValueNotOfType("Object"))


-----------------------------------------------------------------------------
(* Claim about the demonstration run *)

\* The record named uid with these texts, as stored and fetched.
RecordOf(uid, texts) ==
    [id |-> thing(uid).val, title |-> texts.title, body |-> texts.body]

\* What main prints up to the listing, given the ids its creates returned.
Printed(i) ==
    CASE i = 1 -> Line("", ids[1])
      [] i = 2 -> Line("Fetched Object: ", RecordOf(ids[1], Hello))
      [] i = 3 -> Line("ID to be Updated: ", ids[2])
      [] i = 4 -> Line("Updated ID: ", ids[2])
      [] i = 5 -> Line("ID to be deleted: ", ids[3])
      [] i = 6 -> Line("Deleted Object ID: ", ids[3])

\* C10: main makes its calls in the order create, get, create, update,
\* create, delete, list, each after the one before it succeeded and printed
\* its line; the listing is the whole collection, which is record #1 with
\* create's texts and record #2 with the update's, and not record #3; a call
\* that fails is the last one made and nothing is printed after it.
C10_MainOrder ==
    /\ calls = SubSeq(MainOrder, 1, Len(calls))
    /\ pc = "failed" =>
           /\ faultAt = Len(calls)
           /\ Len(out) = IF Len(calls) < 2 THEN 0 ELSE Len(calls) - 2
           /\ ~ENABLED NextMain
    /\ pc \notin {"failed", "done", "new"} => Len(out) = Len(calls) - 1
    /\ \A i \in 1..Len(out) : i <= 6 => out[i] = Printed(i)
    /\ pc = "done" =>
           /\ calls = MainOrder
           /\ Len(out) = 8
           /\ Cardinality({ids[1], ids[2], ids[3]}) = 3
           /\ {out[7], out[8]} =
                  {Line("Object in DB: ", RecordOf(ids[1], Hello)),
                   Line("Object in DB: ", RecordOf(ids[2], Updated))}
           /\ {out[7].val, out[8].val} = {ds[k] : k \in DOMAIN ds}

C10_Witness ==
    /\ pc = "done"
    /\ faultAt = 0
    /\ Len(out) = 8
    /\ out[1].val = ids[1]
    /\ out[6].val = ids[3]


====
